---- MODULE Spec2Model ----
(***************************************************************************)
(* Tile reconstruction engines of streetlevel:                             *)
(*   - streetside (quadtree cubemap): streetside/streetside.py             *)
(*   - streetview (grid equirectangular): streetview/streetview.py         *)
(* Strings are sequences of one-character strings; a constant piece of a   *)
(* URL template is kept as one token.                                      *)
(***************************************************************************)
EXTENDS Integers, Sequences, FiniteSets, TLC

VARIABLES
    pc,         \* position of the call under examination
    call,       \* which entry point was called
    pano,       \* the panorama record handed to the call
    zoom,       \* the zoom argument as passed by the caller
    vzoom,      \* the zoom level the call settled on (zoom after its reassignment)
    tile_list,  \* streetview: the tile list built by _generate_tile_list
    third_party_ids, \* streetview: the panorama ids is_third_party_panoid holds of
    faces,      \* streetside: face id -> list of tiles (dict built by _generate_tile_list)
    error,      \* the exception the call ended with, or "none"
    face_idx,   \* streetside: position of the loop of _download_tiles
    pending,    \* indices of the current batch whose download has not completed
    results,    \* index -> bytes, the completed downloads of the current batch
    batches,    \* the URL lists dispatched to download_files_async so far
    returned,   \* per finished batch: whether it raised, and the number of results it returned
    reordered,  \* whether a download completed before one requested earlier in its batch
    method,     \* streetside: the stitching_method argument
    output,     \* what the call returned
    failing,    \* the URLs whose download fails, when the outcomes are fixed beforehand
    runs,       \* get_panorama and get_panorama_async side by side: the state of each
    stack       \* the invocations of _stitch_face in progress, the outermost first

vars == <<pc, call, pano, zoom, vzoom, tile_list, third_party_ids, faces, error, face_idx,
          pending, results, batches, returned, reordered, method, output, failing, runs,
          stack>>

\* what a streetside call on its own leaves alone
gridVars == <<tile_list, third_party_ids, failing, runs, stack>>

\* ------------------------------------------------------------------ bounds

\* panorama ids 0..MaxPanoId, and one id of 16 base-4 digits
MaxPanoId == 2
\* address generation: requested zoom levels -MaxNegZoom..MaxReqZoom
MaxReqZoom == 10
MaxNegZoom == 2
\* whole requests: requested zoom levels -MaxNegZoom..MaxLifeZoom
MaxLifeZoom == 1
\* downloads of one batch in flight at a time (the session's connection limit)
MaxInFlight == 2
\* streetview: image-size tables of up to MaxLevels zoom levels
MaxLevels == 2
\* streetview: requested zoom levels -MaxNegZoom..MaxGridZoom
MaxGridZoom == 3

\* ------------------------------------------------------- program constants

TILE_SIZE == 256
\* the highest zoom _generate_tile_list accepts
MAX_ZOOM == 4
NUM_FACES == 6
PANOID_DIGITS == 16
FACE_DIGITS == 2

MinReqZoom == 0 - MaxNegZoom
\* a tile that has no "image" key yet: no bytes
NoImage == [src |-> <<>>]
NoValue == "none"

Max(a, b) == IF a >= b THEN a ELSE b
Min(a, b) == IF a <= b THEN a ELSE b

\* ---------------------------------------------------------------- strings

Base4Digit(d) == <<"0", "1", "2", "3">>[d + 1]

\* streetside/util.py to_base4: the base-4 digits of n, most significant first
RECURSIVE to_base4(_)
to_base4(n) ==
    IF n < 4 THEN <<Base4Digit(n)>>
    ELSE to_base4(n \div 4) \o <<Base4Digit(n % 4)>>

\* str.rjust(width, fill)
rjust(s, width, fill) ==
    IF Len(s) >= width THEN s
    ELSE [i \in 1..(width - Len(s)) |-> fill] \o s

\* ------------------------------------------- streetside: address generation

TILE_URL_HEAD == <<"https://t.ssl.ak.tiles.virtualearth.net/tiles/hs">>
TILE_URL_TAIL == <<".jpg?g=13716">>

\* pow(4, zoom): an int for zoom >= 0, a float (0.25, 0.0625, ...) below
SubdivsIsInt(z) == z >= 0
subdivs(z) == 4 ^ z

ZoomTooLargeMut(z) == z > MAX_ZOOM + 1
ZoomTooLarge(z) == z > MAX_ZOOM

face_id_base4(face_id) == rjust(to_base4(face_id + 1), FACE_DIGITS, "0")

subdiv_base4_mut(subdiv, z) ==
    IF z < 1 THEN <<>> ELSE to_base4(subdiv)
subdiv_base4(subdiv, z) ==
    IF z < 1 THEN <<>> ELSE rjust(to_base4(subdiv), z, "0")

TileUrl(panoid, face_id, subdiv, z) ==
    TILE_URL_HEAD \o rjust(to_base4(panoid), PANOID_DIGITS, "0")
        \o face_id_base4(face_id) \o subdiv_base4(subdiv, z) \o TILE_URL_TAIL

FaceTiles(panoid, face_id, z) ==
    [i \in 1..subdivs(z) |->
        [face |-> face_id_base4(face_id), subdiv |-> i - 1,
         url |-> TileUrl(panoid, face_id, i - 1, z), image |-> NoImage]]

\* _generate_tile_list: the faces, or the exception raised
_generate_tile_list(panoid, z) ==
    IF ZoomTooLarge(z) THEN [error |-> "ValueError", faces |-> NoValue]
    ELSE IF ~SubdivsIsInt(z) THEN [error |-> "TypeError", faces |-> NoValue]
    ELSE [error |-> "none",
          faces |-> [f \in 0..(NUM_FACES - 1) |-> FaceTiles(panoid, f, z)]]

\* zoom = max(0, min(zoom, pano.max_zoom))
ClampZoomMut(z, max_zoom) == Max(0, Min(z, max_zoom - 1))
ClampZoom(z, max_zoom) == Max(0, Min(z, max_zoom))

\* ------------------------------------------------------ streetside: stitching

\* An image is its size and the tiles pasted into it: each cell is the pixel
\* offset of one decoded tile and the bytes it was decoded from.

\* Image.open(BytesIO(bytes)): the servers' tiles are TILE_SIZE x TILE_SIZE
ImageOpen(bytes) ==
    [w |-> TILE_SIZE, h |-> TILE_SIZE, cells |-> {[x |-> 0, y |-> 0, src |-> bytes]}]

\* Image.new('RGB', (w, h))
ImageNew(w, h) == [w |-> w, h |-> h, cells |-> {}]

\* canvas.paste(im=im, box=(x, y)): im covers what lay under it, and is clipped
\* by the canvas
Paste(canvas, im, x, y) ==
    LET covered(c) == /\ c.x + TILE_SIZE > x /\ c.x < x + im.w
                      /\ c.y + TILE_SIZE > y /\ c.y < y + im.h
        moved == {[x |-> c.x + x, y |-> c.y + y, src |-> c.src] : c \in im.cells}
    IN [canvas EXCEPT !.cells =
            {c \in canvas.cells : ~covered(c)}
                \cup {c \in moved : c.x < canvas.w /\ c.y < canvas.h}]

\* the loop of _stitch_four from position idx on
RECURSIVE StitchFourFrom(_, _, _)
StitchFourFrom(sub_tile, face, idx) ==
    IF idx >= Min(4, Len(face)) THEN sub_tile
    ELSE StitchFourFrom(
            Paste(sub_tile, ImageOpen(face[idx + 1].image),
                  (idx % 2) * TILE_SIZE, (idx \div 2) * TILE_SIZE),
            face, idx + 1)

_stitch_four_mut(face) ==
    StitchFourFrom(ImageNew(TILE_SIZE * 2, TILE_SIZE * 2),
                   IF Len(face) < 4 THEN face ELSE <<face[1], face[3], face[2], face[4]>>, 0)
_stitch_four(face) == StitchFourFrom(ImageNew(TILE_SIZE * 2, TILE_SIZE * 2), face, 0)

_split_list_mut(list, size) == [k \in 1..Len(list) |-> SubSeq(list, k, k)]
\* _split_list: [list_[i:i + size] for i in range(0, len(list_), size)]
_split_list(list, size) ==
    [k \in 1..((Len(list) + size - 1) \div size) |->
        SubSeq(list, (k - 1) * size + 1, Min(k * size, Len(list)))]

\* int(math.sqrt(n))
ISqrt(n) == CHOOSE r \in 0..n : r * r <= n /\ n < (r + 1) * (r + 1)

stitched_tile_size_mut(n) == ISqrt(n) * TILE_SIZE
\* stitched_tile_size = (grid_size // 2) * TILE_SIZE
stitched_tile_size(n) == (ISqrt(n) \div 2) * TILE_SIZE

\* _stitch_face: the stitched image, with the number of nested invocations of
\* _stitch_face the call reached (the outermost counted)
RECURSIVE _stitch_face(_)
_stitch_face(face) ==
    IF Len(face) <= 4 THEN [image |-> _stitch_four(face), depth |-> 1]
    ELSE
        LET sz == stitched_tile_size(Len(face))
            split == _split_list(face, Len(face) \div 4)
            q1 == _stitch_face(split[1])
            q2 == _stitch_face(split[2])
            q3 == _stitch_face(split[3])
            q4 == _stitch_face(split[4])
            t0 == ImageNew(sz * 2, sz * 2)
            t1 == Paste(t0, q1.image, 0, 0)
            t2 == Paste(t1, q2.image, sz, 0)
            t3 == Paste(t2, q3.image, 0, sz)
            t4 == Paste(t3, q4.image, sz, sz)
        IN [image |-> t4,
            depth |-> 1 + Max(Max(q1.depth, q2.depth), Max(q3.depth, q4.depth))]

StitchingMethods == {"NONE", "ROW"}

\* the loop of util.stitch_cubemap_faces for the ROW method
RECURSIVE StitchRowFrom(_, _, _, _)
StitchRowFrom(canvas, stitched_faces, size, i) ==
    IF i >= Len(stitched_faces) THEN canvas
    ELSE StitchRowFrom(Paste(canvas, stitched_faces[i + 1], i * size, 0),
                       stitched_faces, size, i + 1)

\* util.stitch_cubemap_faces: the six faces as they are, or in one row
stitch_cubemap_faces(stitched_faces, size, m) ==
    IF m = "NONE" THEN stitched_faces
    ELSE StitchRowFrom(ImageNew(NUM_FACES * size, size), stitched_faces, size, 0)

\* the faces _stitch_panorama hands to stitch_cubemap_faces
StitchedFaces(fs) ==
    IF Len(fs[1]) = 1
    THEN [i \in 1..NUM_FACES |-> ImageOpen(fs[i - 1][1].image)]
    ELSE [i \in 1..NUM_FACES |-> _stitch_face(fs[i - 1]).image]

\* _stitch_panorama
_stitch_panorama(fs, m) ==
    stitch_cubemap_faces(StitchedFaces(fs), ISqrt(Len(fs[1])) * TILE_SIZE, m)

\* ------------------------------------------------------ streetside: download

\* what the tile server holds at a URL
ServerBytes(url) == [src |-> url]

AttachedImageMut(tiles, idx) == tiles[Len(tiles) + 1 - idx]
\* tile["image"] = tiles[idx]
AttachedImage(tiles, idx) == tiles[idx]

AttachImagesMut(face, tiles) == face
\* for idx, tile in enumerate(face): tile["image"] = tiles[idx], as far as the
\* list tiles reaches (the loop raises IndexError past its end)
AttachImages(face, tiles) ==
    [i \in 1..Len(face) |->
        IF i <= Len(tiles) THEN [face[i] EXCEPT !.image = AttachedImage(tiles, i)]
        ELSE face[i]]

\* ------------------------------------------------------------------ inputs

PanoIds == (0..MaxPanoId) \cup {4 ^ (PANOID_DIGITS - 1) + 7}
\* max_zoom as int(pano["ml"]): 3 or 4 for the panoramas served, lower ones kept
StreetsidePanos == [id : PanoIds, max_zoom : 0..MAX_ZOOM]

Idle ==
    /\ pc = "ready"
    /\ vzoom = NoValue
    /\ tile_list = NoValue
    /\ third_party_ids = {}
    /\ call = NoValue
    /\ faces = NoValue
    /\ error = "none"
    /\ face_idx = 0
    /\ pending = {}
    /\ results = <<>>
    /\ batches = <<>>
    /\ returned = <<>>
    /\ reordered = FALSE
    /\ output = NoValue
    /\ failing = {}
    /\ runs = NoValue
    /\ stack = <<>>

\* ----------------------------------------- address generation on its own

InitTiles ==
    /\ pano \in StreetsidePanos
    /\ zoom \in MinReqZoom..MaxReqZoom
    /\ method = "ROW"
    /\ Idle

\* a direct call _generate_tile_list(pano.id, zoom)
GenerateTileListCall ==
    /\ pc = "ready"
    /\ LET r == _generate_tile_list(pano.id, zoom) IN
        /\ call' = "_generate_tile_list"
        /\ error' = r.error
        /\ faces' = r.faces
        /\ pc' = IF r.error = "none" THEN "returned" ELSE "raised"
    /\ UNCHANGED <<pano, zoom, vzoom, face_idx, pending, results, batches, returned,
                   reordered, method, output, gridVars>>

UrlsOf(face) == [i \in 1..Len(face) |-> face[i].url]

\* get_panorama / get_panorama_async up to the first suspension: the clamp, the
\* tile list, and the dispatch of the first face's batch by _download_tiles
GetPanoramaStart(kind) ==
    /\ pc = "ready"
    /\ LET r == _generate_tile_list(pano.id, ClampZoom(zoom, pano.max_zoom)) IN
        /\ call' = kind
        /\ vzoom' = ClampZoom(zoom, pano.max_zoom)
        /\ error' = r.error
        /\ faces' = r.faces
        /\ IF r.error = "none"
           THEN /\ pc' = "downloading"
                /\ pending' = 1..Len(r.faces[0])
                /\ batches' = <<UrlsOf(r.faces[0])>>
           ELSE /\ pc' = "raised"
                /\ UNCHANGED <<pending, batches>>
    /\ UNCHANGED <<pano, zoom, face_idx, results, returned, reordered, method, output,
                   gridVars>>

get_panorama == GetPanoramaStart("get_panorama")
get_panorama_async == GetPanoramaStart("get_panorama_async")

NextTiles ==
    \/ GenerateTileListCall
    \/ get_panorama
    \/ get_panorama_async

SpecTiles == InitTiles /\ [][NextTiles]_vars

\* ------------------------------------------------- streetside: whole requests

\* whole requests: one panorama id, with every max_zoom
InitLife ==
    /\ pano \in {p \in StreetsidePanos : p.id = MaxPanoId}
    /\ zoom \in MinReqZoom..MaxLifeZoom
    /\ method \in StitchingMethods
    /\ Idle

CurrentBatch == batches[Len(batches)]

\* util.download_files_async: one download of the batch completes; its bytes go
\* to its own position of the result list
DownloadCompletes ==
    /\ pc = "downloading"
    /\ \E i \in pending :
        /\ i <= (Len(CurrentBatch) - Cardinality(pending)) + MaxInFlight
        /\ results' = [j \in (DOMAIN results) \cup {i} |->
                          IF j = i THEN ServerBytes(CurrentBatch[i]) ELSE results[j]]
        /\ pending' = pending \ {i}
        /\ reordered' = (reordered \/ \E j \in pending : j < i)
    /\ UNCHANGED <<pc, call, pano, zoom, vzoom, faces, error, face_idx, batches, returned,
                   method, output, gridVars>>

\* util.download_files_async: one download of the batch fails, and the batch
\* raises into _download_tiles and out of get_panorama
DownloadFails ==
    /\ pc = "downloading"
    /\ pending # {}
    /\ pc' = "raised"
    /\ error' = "FetchFailure"
    /\ returned' = Append(returned, [raised |-> TRUE, n |-> 0])
    /\ pending' = {}
    /\ results' = <<>>
    /\ UNCHANGED <<call, pano, zoom, vzoom, faces, face_idx, batches, reordered, method,
                   output, gridVars>>

AttachRaisesMut(face, tiles) == FALSE
\* tiles[idx] raises IndexError when the batch returned fewer results than tiles
AttachRaises(face, tiles) == Len(tiles) < Len(face)

\* the batch returns the list tiles to _download_tiles, which attaches it and
\* goes on: to the next face's batch, or to _stitch_panorama and the return
BatchReturnsWith(tiles) ==
    LET fs == [faces EXCEPT ![face_idx] = AttachImages(@, tiles)] IN
    /\ faces' = fs
    /\ returned' = Append(returned, [raised |-> FALSE, n |-> Len(tiles)])
    /\ pending' = IF ~AttachRaises(faces[face_idx], tiles) /\ face_idx < NUM_FACES - 1
                  THEN 1..Len(fs[face_idx + 1]) ELSE {}
    /\ results' = <<>>
    /\ IF AttachRaises(faces[face_idx], tiles)
       THEN /\ pc' = "raised"
            /\ error' = "IndexError"
            /\ UNCHANGED <<face_idx, batches, output>>
       ELSE IF face_idx < NUM_FACES - 1
       THEN /\ face_idx' = face_idx + 1
            /\ batches' = Append(batches, UrlsOf(fs[face_idx + 1]))
            /\ UNCHANGED <<pc, error, output>>
       ELSE /\ pc' = "returned"
            /\ output' = _stitch_panorama(fs, method)
            /\ UNCHANGED <<face_idx, batches, error>>
    /\ UNCHANGED <<call, pano, zoom, vzoom, reordered, method, gridVars>>

\* every download of the batch completed: the batch returns its results
BatchReturns ==
    /\ pc = "downloading"
    /\ pending = {}
    /\ BatchReturnsWith(results)

\* the batch returns fewer results than URLs requested
BatchReturnsShort ==
    /\ pc = "downloading"
    /\ pending = {}
    /\ \E k \in 0..(Len(CurrentBatch) - 1) : BatchReturnsWith(SubSeq(results, 1, k))

Next ==
    \/ get_panorama
    \/ get_panorama_async
    \/ DownloadCompletes
    \/ DownloadFails
    \/ BatchReturns
    \/ BatchReturnsShort

Spec == InitLife /\ [][Next]_vars

\* ------------------------------------------------ streetside: stitching alone

\* the faces as _download_tiles leaves them when every batch returned in full
Downloaded(fs) ==
    [f \in DOMAIN fs |-> AttachImages(fs[f], [i \in 1..Len(fs[f]) |-> ServerBytes(fs[f][i].url)])]

\* the stitching functions are called on the downloaded faces of a zoom in 0..4
InitStitch ==
    /\ pano \in {p \in StreetsidePanos : p.max_zoom = MAX_ZOOM}
    /\ zoom \in 0..MAX_ZOOM
    /\ method \in StitchingMethods
    /\ face_idx \in 0..(NUM_FACES - 1)
    /\ faces = Downloaded(_generate_tile_list(pano.id, zoom).faces)
    /\ vzoom = zoom
    /\ tile_list = NoValue
    /\ third_party_ids = {}
    /\ pc = "ready"
    /\ call = NoValue
    /\ error = "none"
    /\ pending = {}
    /\ results = <<>>
    /\ batches = <<>>
    /\ returned = <<>>
    /\ reordered = FALSE
    /\ output = NoValue
    /\ failing = {}
    /\ runs = NoValue
    /\ stack = <<>>

\* a call _stitch_face(faces[face_idx])
StitchFaceCall ==
    /\ pc = "ready"
    /\ call' = "_stitch_face"
    /\ output' = _stitch_face(faces[face_idx])
    /\ pc' = "returned"
    /\ UNCHANGED <<pano, zoom, vzoom, faces, error, face_idx, pending, results, batches,
                   returned, reordered, method, gridVars>>

\* a call _stitch_panorama(faces, stitching_method)
StitchPanoramaCall ==
    /\ pc = "ready"
    /\ call' = "_stitch_panorama"
    /\ output' = _stitch_panorama(faces, method)
    /\ pc' = "returned"
    /\ UNCHANGED <<pano, zoom, vzoom, faces, error, face_idx, pending, results, batches,
                   returned, reordered, method, gridVars>>

NextStitch ==
    \/ StitchFaceCall
    \/ StitchPanoramaCall

SpecStitch == InitStitch /\ [][NextStitch]_vars

\* --------------------------------------- streetside: _stitch_face step by step

\* One invocation of _stitch_face: the list it was given, the canvas it pastes
\* into, how many of its four quarters it has stitched, and the number of nested
\* invocations below and including it.
Invocation(face) ==
    [face |-> face,
     tile |-> IF Len(face) <= 4 THEN ImageNew(TILE_SIZE * 2, TILE_SIZE * 2)
              ELSE ImageNew(stitched_tile_size(Len(face)) * 2,
                            stitched_tile_size(Len(face)) * 2),
     done |-> 0,
     depth |-> 1]

\* tile.paste(im=_stitch_face(split[q]), box=...): the box of quarter q
QuarterBox(face, q) ==
    [x |-> (q % 2) * stitched_tile_size(Len(face)),
     y |-> (q \div 2) * stitched_tile_size(Len(face))]

InitRecursion ==
    /\ pano \in {p \in StreetsidePanos : p.id = MaxPanoId /\ p.max_zoom = MAX_ZOOM}
    /\ zoom \in 0..MAX_ZOOM
    /\ method = "ROW"
    /\ face_idx \in 0..(NUM_FACES - 1)
    /\ faces = Downloaded(_generate_tile_list(pano.id, zoom).faces)
    /\ vzoom = zoom
    /\ stack = <<>>
    /\ tile_list = NoValue
    /\ third_party_ids = {}
    /\ failing = {}
    /\ runs = NoValue
    /\ pc = "ready"
    /\ call = NoValue
    /\ error = "none"
    /\ pending = {}
    /\ results = <<>>
    /\ batches = <<>>
    /\ returned = <<>>
    /\ reordered = FALSE
    /\ output = NoValue

recursionFrame ==
    <<pano, zoom, vzoom, tile_list, third_party_ids, faces, error, face_idx, pending,
      results, batches, returned, reordered, method, failing, runs>>

\* an invocation returns image: to the caller of _stitch_face when it was the
\* outermost, else into the canvas of the invocation that made it
InvocationReturns(image, depth) ==
    LET rest == SubSeq(stack, 1, Len(stack) - 1) IN
    /\ IF rest = <<>>
       THEN /\ stack' = <<>>
            /\ pc' = "returned"
            /\ output' = [image |-> image, depth |-> depth]
       ELSE LET caller == rest[Len(rest)]
                box == QuarterBox(caller.face, caller.done) IN
            /\ stack' = [rest EXCEPT ![Len(rest)] =
                            [caller EXCEPT !.tile = Paste(@, image, box.x, box.y),
                                           !.done = @ + 1,
                                           !.depth = Max(@, 1 + depth)]]
            /\ UNCHANGED <<pc, output>>
    /\ UNCHANGED call
    /\ UNCHANGED recursionFrame

\* the call _stitch_face(faces[face_idx])
StitchFaceEnters ==
    /\ pc = "ready"
    /\ pc' = "stitching"
    /\ call' = "_stitch_face"
    /\ stack' = <<Invocation(faces[face_idx])>>
    /\ UNCHANGED output
    /\ UNCHANGED recursionFrame

\* if len(face) <= 4: return _stitch_four(face)
StitchFaceBaseCase ==
    /\ pc = "stitching"
    /\ stack # <<>>
    /\ Len(stack[Len(stack)].face) <= 4
    /\ InvocationReturns(_stitch_four(stack[Len(stack)].face), 1)

\* the next _stitch_face(split[q]) of an invocation on more than 4 tiles
StitchFaceRecurses ==
    /\ pc = "stitching"
    /\ stack # <<>>
    /\ LET top == stack[Len(stack)] IN
        /\ Len(top.face) > 4
        /\ top.done < 4
        /\ stack' = Append(stack,
                Invocation(_split_list(top.face, Len(top.face) \div 4)[top.done + 1]))
    /\ UNCHANGED <<pc, call, output>>
    /\ UNCHANGED recursionFrame

\* return tile, the four quarters pasted
StitchFaceReturns ==
    /\ pc = "stitching"
    /\ stack # <<>>
    /\ Len(stack[Len(stack)].face) > 4
    /\ stack[Len(stack)].done = 4
    /\ InvocationReturns(stack[Len(stack)].tile, stack[Len(stack)].depth)

NextRecursion ==
    \/ StitchFaceEnters
    \/ StitchFaceBaseCase
    \/ StitchFaceRecurses
    \/ StitchFaceReturns

\* a Python call that has been made runs on: nothing else is scheduled
SpecRecursion == InitRecursion /\ [][NextRecursion]_vars /\ WF_vars(NextRecursion)

\* ------------------------------------------- streetview: address generation

DecDigit(d) == <<"0", "1", "2", "3", "4", "5", "6", "7", "8", "9">>[d + 1]

\* how str.format writes an int: its decimal digits, "-" before a negative one
RECURSIVE DecStr(_)
DecStr(n) ==
    IF n < 0 THEN <<"-">> \o DecStr(0 - n)
    ELSE IF n < 10 THEN <<DecDigit(n)>>
    ELSE DecStr(n \div 10) \o <<DecDigit(n % 10)>>

\* a template is a list of pieces: literal text, or the number of an argument
Lit(text) == [lit |-> TRUE, text |-> text, arg |-> 0]
Arg(n) == [lit |-> FALSE, text |-> "", arg |-> n]

IMAGE_URL ==
    <<Lit("https://cbk0.google.com/cbk?output=tile&panoid="), Arg(0),
      Lit("&zoom="), Arg(3), Lit("&x="), Arg(1), Lit("&y="), Arg(2)>>
THIRD_PARTY_IMAGE_URL ==
    <<Lit("https://lh3.ggpht.com/p/"), Arg(0), Lit("=x"), Arg(1),
      Lit("-y"), Arg(2), Lit("-z"), Arg(3)>>

\* str.format: every piece of the template in turn, arguments by position
RECURSIVE Format(_, _)
Format(template, args) ==
    IF template = <<>> THEN <<>>
    ELSE (IF Head(template).lit THEN <<Head(template).text>>
          ELSE args[Head(template).arg + 1])
         \o Format(Tail(template), args)

\* streetview/util.py is_third_party_panoid: some fixed predicate of the id
is_third_party_panoid(panoid) == panoid \in third_party_ids

url_to_use_mut(panoid) == IMAGE_URL
\* url_to_use = THIRD_PARTY_IMAGE_URL if is_third_party_panoid(pano.id) else IMAGE_URL
url_to_use(panoid) ==
    IF is_third_party_panoid(panoid) THEN THIRD_PARTY_IMAGE_URL ELSE IMAGE_URL

CeilDivMut(a, b) == a \div b + 1
\* math.ceil(a / b), of positive ints that floats hold exactly
CeilDiv(a, b) == IF a % b = 0 THEN a \div b ELSE a \div b + 1

RECURSIVE ProductMutFrom(_, _, _)
ProductMutFrom(y, cols, rows) ==
    IF y >= rows THEN <<>>
    ELSE [i \in 1..cols |-> <<i - 1, y>>] \o ProductMutFrom(y + 1, cols, rows)

\* itertools.product(range(cols), range(rows)) from the first component x on
RECURSIVE ProductFrom(_, _, _)
ProductFrom(x, cols, rows) ==
    IF x >= cols THEN <<>>
    ELSE [j \in 1..rows |-> <<x, j - 1>>] \o ProductFrom(x + 1, cols, rows)

coords_mut(cols, rows) == ProductMutFrom(0, cols, rows)
\* coords = list(itertools.product(range(cols), range(rows)))
coords(cols, rows) == ProductFrom(0, cols, rows)

\* url_to_use.format(pano.id, x, y, zoom)
GridTileUrl(p, x, y, z) == Format(url_to_use(p.id), <<p.id, DecStr(x), DecStr(y), DecStr(z)>>)

\* img_size = pano.image_sizes[zoom]
ImageSize(p, z) == p.image_sizes.list[z + 1]

\* streetview _generate_tile_list
streetview_generate_tile_list(p, z) ==
    LET cols == CeilDiv(ImageSize(p, z).x, p.tile_size.x)
        rows == CeilDiv(ImageSize(p, z).y, p.tile_size.y)
        cs == coords(cols, rows)
    IN [k \in 1..Len(cs) |->
            [x |-> cs[k][1], y |-> cs[k][2],
             url |-> GridTileUrl(p, cs[k][1], cs[k][2], z)]]

\* not pano.image_sizes: the table is None or empty
NoImageSizes(p) == p.image_sizes.none \/ p.image_sizes.list = <<>>

ValidZoomMut(p, z) == Max(0, Min(z, Len(p.image_sizes.list) - 2))
\* zoom = max(0, min(zoom, len(pano.image_sizes) - 1))
ValidZoom(p, z) == Max(0, Min(z, Len(p.image_sizes.list) - 1))

\* ------------------------------------------------------- streetview: inputs

GridPanoIds == {<<"n", "Y", "0", "w">>, <<"A", "F", "1", "Q", "i", "p">>}
GridBaseWidths == {1, 256, 257, 512}
GridBaseHeights == {1, 256, 300}
GridTileSizes == [x : {255, 256, 512}, y : {256, 512}]

\* the size table of a panorama: absent, empty, or one size per zoom level, each
\* level twice the one before
ImageSizeTables ==
    {[none |-> TRUE, list |-> <<>>], [none |-> FALSE, list |-> <<>>]}
    \cup {[none |-> FALSE,
           list |-> [i \in 1..n |-> [x |-> w * 2 ^ (i - 1), y |-> h * 2 ^ (i - 1)]]] :
             n \in 1..MaxLevels, w \in GridBaseWidths, h \in GridBaseHeights}

StreetViewPanos == [id : GridPanoIds, image_sizes : ImageSizeTables, tile_size : GridTileSizes]

InitGrid ==
    /\ pano \in StreetViewPanos
    /\ zoom \in MinReqZoom..MaxGridZoom
    /\ third_party_ids \in SUBSET GridPanoIds
    /\ pc = "ready"
    /\ call = NoValue
    /\ vzoom = NoValue
    /\ tile_list = NoValue
    /\ faces = NoValue
    /\ error = "none"
    /\ face_idx = 0
    /\ pending = {}
    /\ results = <<>>
    /\ batches = <<>>
    /\ returned = <<>>
    /\ reordered = FALSE
    /\ method = NoValue
    /\ output = NoValue
    /\ failing = {}
    /\ runs = NoValue
    /\ stack = <<>>

\* a call _generate_tile_list(pano, zoom) with a zoom level of the size table
GridGenerateTileListCall ==
    /\ pc = "ready"
    /\ ~NoImageSizes(pano)
    /\ zoom \in 0..(Len(pano.image_sizes.list) - 1)
    /\ call' = "streetview._generate_tile_list"
    /\ vzoom' = zoom
    /\ tile_list' = streetview_generate_tile_list(pano, zoom)
    /\ pc' = "returned"
    /\ UNCHANGED <<pano, zoom, third_party_ids, faces, error, face_idx, pending, results,
                   batches, returned, reordered, method, output, failing, runs, stack>>

\* streetview get_panorama / get_panorama_async up to the first suspension:
\* _validate_get_panorama_params, _generate_tile_list, and the one batch that
\* get_equirectangular_panorama dispatches
GridGetPanoramaStart(kind) ==
    /\ pc = "ready"
    /\ call' = kind
    /\ IF NoImageSizes(pano)
       THEN /\ pc' = "raised"
            /\ error' = "ValueError"
            /\ UNCHANGED <<vzoom, tile_list, pending, batches>>
       ELSE LET z == ValidZoom(pano, zoom)
                ts == streetview_generate_tile_list(pano, z) IN
            /\ vzoom' = z
            /\ tile_list' = ts
            /\ pc' = "downloading"
            /\ pending' = 1..Len(ts)
            /\ batches' = <<UrlsOf(ts)>>
            /\ error' = "none"
    /\ UNCHANGED <<pano, zoom, third_party_ids, faces, face_idx, results, returned,
                   reordered, method, output, failing, runs, stack>>

streetview_get_panorama == GridGetPanoramaStart("streetview.get_panorama")
streetview_get_panorama_async == GridGetPanoramaStart("streetview.get_panorama_async")

\* util.get_equirectangular_panorama: the batch returned; every tile is pasted
\* at (x * tile_width, y * tile_height) into a canvas of the declared size
GridBatchReturns ==
    /\ pc = "downloading"
    /\ call \in {"streetview.get_panorama", "streetview.get_panorama_async"}
    /\ pc' = "returned"
    /\ pending' = {}
    /\ returned' = Append(returned, [raised |-> FALSE, n |-> Len(tile_list)])
    /\ output' = [w |-> ImageSize(pano, vzoom).x, h |-> ImageSize(pano, vzoom).y,
                  cells |-> {[x |-> tile_list[k].x * pano.tile_size.x,
                              y |-> tile_list[k].y * pano.tile_size.y,
                              src |-> ServerBytes(tile_list[k].url)] : k \in 1..Len(tile_list)}]
    /\ UNCHANGED <<call, pano, zoom, vzoom, tile_list, third_party_ids, faces, error,
                   face_idx, results, batches, reordered, method, failing, runs, stack>>

\* util.get_equirectangular_panorama: the batch raised
GridBatchFails ==
    /\ pc = "downloading"
    /\ call \in {"streetview.get_panorama", "streetview.get_panorama_async"}
    /\ pc' = "raised"
    /\ error' = "FetchFailure"
    /\ pending' = {}
    /\ returned' = Append(returned, [raised |-> TRUE, n |-> 0])
    /\ UNCHANGED <<call, pano, zoom, vzoom, tile_list, third_party_ids, faces,
                   face_idx, results, batches, reordered, method, output, failing, runs, stack>>

NextGrid ==
    \/ GridGenerateTileListCall
    \/ streetview_get_panorama
    \/ streetview_get_panorama_async
    \/ GridBatchReturns
    \/ GridBatchFails

SpecGrid == InitGrid /\ [][NextGrid]_vars

\* ------------------------- streetside: the two calling conventions side by side

\* get_panorama and get_panorama_async are each called once on the same panorama,
\* zoom and stitching method, against a server whose outcome is fixed per URL.

Conventions == {"get_panorama", "get_panorama_async"}

Reverse(list) == [i \in 1..Len(list) |-> list[Len(list) + 1 - i]]

_download_tiles_urls_mut(face) == Reverse(UrlsOf(face))
\* _download_tiles: [tile["url"] for tile in face], handed to
\* asyncio.run(download_files_async(...))
_download_tiles_urls(face) == UrlsOf(face)

\* _download_tiles_async: [tile["url"] for tile in face], handed to
\* await download_files_async(..., session)
_download_tiles_async_urls(face) == UrlsOf(face)

\* the URL list a convention requests for a face
BatchUrls(kind, face) ==
    IF kind = "get_panorama" THEN _download_tiles_urls(face)
    ELSE _download_tiles_async_urls(face)

\* util.download_files_async on a server of fixed outcomes: raises when the
\* download of any of the URLs fails, else returns the bytes in request order
download_files_async(urls) ==
    IF \E i \in 1..Len(urls) : urls[i] \in failing
    THEN [raised |-> TRUE, tiles |-> <<>>]
    ELSE [raised |-> FALSE, tiles |-> [i \in 1..Len(urls) |-> ServerBytes(urls[i])]]

\* a convention before its call
NotCalled ==
    [pc |-> "ready", vzoom |-> NoValue, faces |-> NoValue, face_idx |-> 0,
     batches |-> <<>>, error |-> "none", output |-> NoValue]

\* every URL of the tile list the call will build
RequestUrls(p, z) ==
    LET fs == _generate_tile_list(p.id, ClampZoom(z, p.max_zoom)).faces IN
    {fs[f][i].url : f \in 0..(NUM_FACES - 1), i \in 1..Len(fs[0])}

\* the outcomes of the server: no download fails, one fails, or one of the first
\* face and one of the last face fail
FailingSets(p, z) ==
    LET fs == _generate_tile_list(p.id, ClampZoom(z, p.max_zoom)).faces IN
    {{}} \cup {{u} : u \in RequestUrls(p, z)}
         \cup {{fs[0][i].url, fs[NUM_FACES - 1][j].url} : i, j \in 1..Len(fs[0])}

InitPair ==
    /\ pano \in {p \in StreetsidePanos : p.id = MaxPanoId}
    /\ zoom \in MinReqZoom..MaxLifeZoom
    /\ method \in StitchingMethods
    /\ failing \in FailingSets(pano, zoom)
    /\ runs = [kind \in Conventions |-> NotCalled]
    /\ stack = <<>>
    /\ pc = "ready"
    /\ vzoom = NoValue
    /\ tile_list = NoValue
    /\ third_party_ids = {}
    /\ call = NoValue
    /\ faces = NoValue
    /\ error = "none"
    /\ face_idx = 0
    /\ pending = {}
    /\ results = <<>>
    /\ batches = <<>>
    /\ returned = <<>>
    /\ reordered = FALSE
    /\ output = NoValue

pairFrame ==
    <<pc, call, pano, zoom, vzoom, tile_list, third_party_ids, faces, error, face_idx,
      pending, results, batches, returned, reordered, method, output, failing, stack>>

\* the call of a convention up to its first batch: the clamp, the tile list, and
\* the request of the first face's URLs
PairCall(kind) ==
    /\ runs[kind].pc = "ready"
    /\ LET z == ClampZoom(zoom, pano.max_zoom)
           r == _generate_tile_list(pano.id, z) IN
        runs' = [runs EXCEPT ![kind] =
            IF r.error = "none"
            THEN [@ EXCEPT !.pc = "downloading", !.vzoom = z, !.faces = r.faces,
                           !.batches = <<BatchUrls(kind, r.faces[0])>>]
            ELSE [@ EXCEPT !.pc = "raised", !.vzoom = z, !.error = r.error]]
    /\ UNCHANGED pairFrame

\* the batch of the current face ends: it raises out of the call, or its results
\* are attached and the loop goes on to the next face, or to _stitch_panorama
PairBatchEnds(kind) ==
    /\ runs[kind].pc = "downloading"
    /\ LET run == runs[kind]
           f == run.face_idx
           got == download_files_async(run.batches[Len(run.batches)])
           fs == [run.faces EXCEPT ![f] = AttachImages(@, got.tiles)] IN
        runs' = [runs EXCEPT ![kind] =
            IF got.raised
            THEN [run EXCEPT !.pc = "raised", !.error = "FetchFailure"]
            ELSE IF f < NUM_FACES - 1
            THEN [run EXCEPT !.faces = fs, !.face_idx = f + 1,
                             !.batches = Append(@, BatchUrls(kind, fs[f + 1]))]
            ELSE [run EXCEPT !.faces = fs, !.pc = "returned",
                             !.output = _stitch_panorama(fs, method)]]
    /\ UNCHANGED pairFrame

PairGetPanorama == PairCall("get_panorama")
PairGetPanoramaAsync == PairCall("get_panorama_async")
PairDownloadTiles == PairBatchEnds("get_panorama")
PairDownloadTilesAsync == PairBatchEnds("get_panorama_async")

NextPair ==
    \/ PairGetPanorama
    \/ PairGetPanoramaAsync
    \/ PairDownloadTiles
    \/ PairDownloadTilesAsync

SpecPair == InitPair /\ [][NextPair]_vars

\* ---------------------------------------------- claims on address generation

Base4Chars == {"0", "1", "2", "3"}
Base4CharValue(c) == CHOOSE d \in 0..3 : Base4Digit(d) = c

\* the number a string of base-4 digits denotes
RECURSIVE Base4Value(_)
Base4Value(s) ==
    IF s = <<>> THEN 0
    ELSE 4 * Base4Value(SubSeq(s, 1, Len(s) - 1)) + Base4CharValue(s[Len(s)])

\* the subdivision code of a tile URL built at zoom z: the z characters before ".jpg?g=13716"
SubdivCodeOf(url, z) == SubSeq(url, Len(url) - z, Len(url) - 1)

IsBase4Code(s, z) == Len(s) = z /\ \A k \in 1..Len(s) : s[k] \in Base4Chars

\* C1: for every panorama id and zoom z in 0..4, _generate_tile_list returns six
\* faces of 4^z tiles each, and the subdivision code of the i-th tile of a face is
\* the base-4 representation of i, zero-padded to z digits (empty for z = 0), so
\* the codes ascend and none repeats.
C1_SixFacesOfBase4Codes ==
    (call = "_generate_tile_list" /\ zoom \in 0..MAX_ZOOM) =>
        /\ pc = "returned"
        /\ DOMAIN faces = 0..5
        /\ \A f \in 0..5 :
            /\ Len(faces[f]) = 4 ^ zoom
            /\ \A i \in 1..Len(faces[f]) :
                LET code == SubdivCodeOf(faces[f][i].url, zoom) IN
                    /\ IsBase4Code(code, zoom)
                    /\ Base4Value(code) = i - 1
                    /\ zoom = 0 => code = <<>>
            /\ \A i \in 1..(Len(faces[f]) - 1) :
                Base4Value(SubdivCodeOf(faces[f][i].url, zoom))
                    < Base4Value(SubdivCodeOf(faces[f][i + 1].url, zoom))
            /\ Cardinality({SubdivCodeOf(faces[f][i].url, zoom) : i \in 1..Len(faces[f])})
                    = Len(faces[f])

C1_Witness ==
    /\ call = "_generate_tile_list"
    /\ zoom = 4
    /\ pc = "returned"
    /\ Len(faces[5]) = 256
    /\ SubdivCodeOf(faces[5][7].url, 4) = <<"0", "0", "1", "2">>

\* C2: get_panorama and get_panorama_async build the tile list of zoom
\* min(max(zoom, 0), pano.max_zoom) whatever integer zoom is requested; zoom 10 on
\* a panorama of max_zoom 3 gives the tile list of zoom 3.
C2_TileListOfClampedZoom ==
    (call \in {"get_panorama", "get_panorama_async"}) =>
        /\ error = "none"
        /\ vzoom = Min(Max(zoom, 0), pano.max_zoom)
        /\ \A f \in 0..5 : \A i \in 1..Len(faces[f]) :
               faces[f][i].url = _generate_tile_list(pano.id, Min(Max(zoom, 0), pano.max_zoom)).faces[f][i].url
        /\ \A f \in 0..5 : Len(faces[f]) = 4 ^ Min(Max(zoom, 0), pano.max_zoom)
        /\ (zoom = 10 /\ pano.max_zoom = 3) =>
               \A f \in 0..5 : UrlsOf(faces[f]) = UrlsOf(_generate_tile_list(pano.id, 3).faces[f])

C2_Witness ==
    /\ call = "get_panorama_async"
    /\ zoom = 10
    /\ pano.max_zoom = 3
    /\ Len(faces[0]) = 64

\* C3 as stated: _generate_tile_list called with z > 4 or z < 0 fails with
\* InvalidZoom (the ValueError of line 201) and returns no tile list.
C3_InvalidZoomOutsideRange ==
    (call = "_generate_tile_list" /\ (zoom > MAX_ZOOM \/ zoom < 0)) =>
        pc = "raised" /\ error = "ValueError" /\ faces = NoValue

\* C3 amended: _generate_tile_list called with z > 4 fails with InvalidZoom (the
\* ValueError); called with z < 0 it also fails and returns no tile list, but with
\* the TypeError range() raises on the non-integer pow(4, z), not with InvalidZoom.
C3_FailsOutsideRange ==
    (call = "_generate_tile_list") =>
        /\ zoom > MAX_ZOOM => (pc = "raised" /\ error = "ValueError" /\ faces = NoValue)
        /\ zoom < 0 => (pc = "raised" /\ error = "TypeError" /\ faces = NoValue)

C3_Witness ==
    /\ call = "_generate_tile_list"
    /\ zoom = MAX_ZOOM + 1
    /\ pc = "raised"
    /\ error = "ValueError"

\* ------------------------------------------------------- claims on requests

BatchFailed(b) == returned[b].raised \/ returned[b].n < Len(batches[b])

\* C4: when the batch of any face raises or returns fewer results than URLs, the
\* request fails: it ends in an exception, nothing is stitched, nothing returned.
C4_FailedBatchFailsRequest ==
    (\E b \in 1..Len(returned) : BatchFailed(b)) =>
        /\ pc = "raised"
        /\ error \in {"FetchFailure", "IndexError"}
        /\ output = NoValue

C4_Witness ==
    /\ pc = "raised"
    /\ Len(returned) = NUM_FACES
    /\ ~returned[NUM_FACES].raised
    /\ returned[NUM_FACES].n = 3
    /\ Len(batches[NUM_FACES]) = 4
    /\ \A b \in 1..(NUM_FACES - 1) : ~BatchFailed(b)

\* C5: once a face's batch has been attached, tile i of face f carries the bytes
\* of its own URL, the i-th result of the batch of face f's URL list, whatever
\* the order the downloads of the batch completed in.
C5_BytesAttachedByPosition ==
    (call \in {"get_panorama", "get_panorama_async"} /\ error # "ValueError") =>
        \A f \in 0..(NUM_FACES - 1) :
            (f < face_idx \/ pc = "returned") =>
                /\ batches[f + 1] = UrlsOf(faces[f])
                /\ \A i \in 1..Len(faces[f]) :
                    /\ faces[f][i].image = ServerBytes(batches[f + 1][i])
                    /\ faces[f][i].image = ServerBytes(faces[f][i].url)
                    /\ \A g \in 0..(NUM_FACES - 1) : \A j \in 1..Len(faces[g]) :
                        faces[f][i].image = ServerBytes(faces[g][j].url) => (g = f /\ j = i)

C5_Witness ==
    /\ pc = "returned"
    /\ reordered
    /\ Len(faces[3]) = 4
    /\ faces[3][2].image = ServerBytes(faces[3][2].url)

\* ------------------------------------------------------ claims on stitching

IsSquareOfSide(im, side) == im.w = side /\ im.h = side

\* C6 as stated: for every k in 0..4, _stitch_face on a face of 4^k tiles goes k
\* levels deep and returns a square image of side 256 * 2^k.
C6_DepthAndSideForEveryZoom ==
    (call = "_stitch_face") =>
        /\ Len(faces[face_idx]) = 4 ^ zoom
        /\ output.depth = zoom
        /\ IsSquareOfSide(output.image, TILE_SIZE * 2 ^ zoom)

\* C6 amended: for every k in 1..4, _stitch_face on a face of 4^k tiles nests
\* exactly k invocations of itself (the outermost counted, each one level of 2x2
\* assembly) and returns a square image of side 256 * 2^k. On a face of one tile
\* (k = 0) it does one level and returns a canvas of side 512; _stitch_panorama
\* does not call it there and takes the tile as it is, so that every face
\* _stitch_panorama produces has side 256 * 2^k for k in 0..4.
C6_DepthAndSideFromZoomOne ==
    /\ (call = "_stitch_face" /\ zoom >= 1) =>
        /\ Len(faces[face_idx]) = 4 ^ zoom
        /\ output.depth = zoom
        /\ IsSquareOfSide(output.image, TILE_SIZE * 2 ^ zoom)
    /\ (call = "_stitch_face" /\ zoom = 0) =>
        /\ Len(faces[face_idx]) = 1
        /\ output.depth = 1
        /\ IsSquareOfSide(output.image, TILE_SIZE * 2)
    /\ (call = "_stitch_panorama" /\ method = "NONE") =>
        /\ Len(output) = NUM_FACES
        /\ \A i \in 1..NUM_FACES : IsSquareOfSide(output[i], TILE_SIZE * 2 ^ zoom)
        /\ zoom = 0 => \A i \in 1..NUM_FACES : output[i] = ImageOpen(faces[i - 1][1].image)

C6_Witness ==
    /\ call = "_stitch_face"
    /\ zoom = MAX_ZOOM
    /\ Len(faces[face_idx]) = 256
    /\ output.depth = 4
    /\ IsSquareOfSide(output.image, 4096)

\* ---------------------------------------------------- claims on the grid engine

GridCalls ==
    {"streetview._generate_tile_list", "streetview.get_panorama", "streetview.get_panorama_async"}

\* a grid call that built its tile list
HasTileList == call \in GridCalls /\ ~(pc = "raised" /\ error = "ValueError")

\* c = ceil(a / b), said without dividing
IsCeilOf(c, a, b) == c * b >= a /\ (c - 1) * b < a
CeilOf(a, b) == CHOOSE c \in 0..a : IsCeilOf(c, a, b)

ExpectedCols == CeilOf(ImageSize(pano, vzoom).x, pano.tile_size.x)
ExpectedRows == CeilOf(ImageSize(pano, vzoom).y, pano.tile_size.y)

\* C7: the grid _generate_tile_list returns cols * rows tiles, cols = ceil(width /
\* tile_width), rows = ceil(height / tile_height), with every (x, y) of
\* 0..cols-1 x 0..rows-1 exactly once and nothing else; a 512x256 image of
\* 256x256 tiles gives the two tiles (0,0) and (1,0).
C7_GridHoldsEveryPairOnce ==
    HasTileList =>
        /\ Len(tile_list) = ExpectedCols * ExpectedRows
        /\ \A k \in 1..Len(tile_list) :
            tile_list[k].x \in 0..(ExpectedCols - 1) /\ tile_list[k].y \in 0..(ExpectedRows - 1)
        /\ \A x \in 0..(ExpectedCols - 1) : \A y \in 0..(ExpectedRows - 1) :
            Cardinality({k \in 1..Len(tile_list) : tile_list[k].x = x /\ tile_list[k].y = y}) = 1
        /\ (ImageSize(pano, vzoom) = [x |-> 512, y |-> 256] /\ pano.tile_size = [x |-> 256, y |-> 256]) =>
            [k \in 1..Len(tile_list) |-> <<tile_list[k].x, tile_list[k].y>>] = <<<<0, 0>>, <<1, 0>>>>

C7_Witness ==
    /\ call = "streetview._generate_tile_list"
    /\ pc = "returned"
    /\ ImageSize(pano, vzoom) = [x |-> 512, y |-> 256]
    /\ pano.tile_size = [x |-> 256, y |-> 256]
    /\ Len(tile_list) = 2
    /\ tile_list[1].x = 0 /\ tile_list[1].y = 0
    /\ tile_list[2].x = 1 /\ tile_list[2].y = 0

\* C8: the grid tile list is column-major: tile (x1, y1) comes before tile
\* (x2, y2) exactly when x1 < x2, or x1 = x2 and y1 < y2.
C8_ColumnMajorOrder ==
    HasTileList =>
        \A k1, k2 \in 1..Len(tile_list) :
            (k1 < k2) <=>
                \/ tile_list[k1].x < tile_list[k2].x
                \/ (tile_list[k1].x = tile_list[k2].x /\ tile_list[k1].y < tile_list[k2].y)

C8_Witness ==
    /\ call = "streetview._generate_tile_list"
    /\ pc = "returned"
    /\ Len(tile_list) = 6
    /\ ExpectedCols = 2
    /\ tile_list[2].x = 0 /\ tile_list[2].y = 1
    /\ tile_list[4].x = 1 /\ tile_list[4].y = 0

\* C9: streetview get_panorama / get_panorama_async fail with InvalidState (the
\* ValueError) and fetch nothing when the panorama has no image-size table, None
\* or empty; otherwise the zoom they use is min(max(zoom, 0), levels - 1), an
\* index of the table.
C9_ValidatedZoom ==
    (call \in {"streetview.get_panorama", "streetview.get_panorama_async"}) =>
        IF pano.image_sizes.none \/ Len(pano.image_sizes.list) = 0
        THEN /\ pc = "raised"
             /\ error = "ValueError"
             /\ batches = <<>>
             /\ pending = {}
             /\ output = NoValue
        ELSE /\ vzoom = Min(Max(zoom, 0), Len(pano.image_sizes.list) - 1)
             /\ vzoom \in 0..(Len(pano.image_sizes.list) - 1)
             /\ vzoom + 1 \in DOMAIN pano.image_sizes.list
             /\ error # "ValueError"

C9_Witness ==
    /\ call = "streetview.get_panorama_async"
    /\ pano.image_sizes.none
    /\ pc = "raised"
    /\ error = "ValueError"
    /\ batches = <<>>

FirstPartyUrl(id, x, y, z) ==
    <<"https://cbk0.google.com/cbk?output=tile&panoid=">> \o id
        \o <<"&zoom=">> \o DecStr(z) \o <<"&x=">> \o DecStr(x) \o <<"&y=">> \o DecStr(y)

ThirdPartyUrl(id, x, y, z) ==
    <<"https://lh3.ggpht.com/p/">> \o id
        \o <<"=x">> \o DecStr(x) \o <<"-y">> \o DecStr(y) \o <<"-z">> \o DecStr(z)

\* C10: every tile of one grid tile list has the URL of one template, the
\* third-party one when is_third_party_panoid holds of the panorama id and the
\* first-party one otherwise, filled with the id, the tile's x, the tile's y and
\* the zoom; two tiles of the list with equal URLs have the same (x, y).
C10_OneTemplatePerList ==
    HasTileList =>
        /\ \A k \in 1..Len(tile_list) :
            tile_list[k].url =
                IF pano.id \in third_party_ids
                THEN ThirdPartyUrl(pano.id, tile_list[k].x, tile_list[k].y, vzoom)
                ELSE FirstPartyUrl(pano.id, tile_list[k].x, tile_list[k].y, vzoom)
        /\ \A k1, k2 \in 1..Len(tile_list) :
            tile_list[k1].url = tile_list[k2].url =>
                (tile_list[k1].x = tile_list[k2].x /\ tile_list[k1].y = tile_list[k2].y)

C10_Witness ==
    /\ call = "streetview._generate_tile_list"
    /\ pc = "returned"
    /\ pano.id \in third_party_ids
    /\ Len(tile_list) >= 2
    /\ tile_list[2].url = <<"https://lh3.ggpht.com/p/", "A", "F", "1", "Q", "i", "p",
                            "=x", "0", "-y", "1", "-z", "1">>

\* ------------------------------------------- claims on the calling conventions

RunEnded(run) == run.pc \in {"returned", "raised"}

IsPrefix(s, t) == Len(s) <= Len(t) /\ SubSeq(t, 1, Len(s)) = s

DigitOf(i, j, k) == (i \div (4 ^ (k - j))) % 4

\* sum over j of (d_j mod 2) * 2^(k-j), from digit j on
RECURSIVE ColumnFrom(_, _, _)
ColumnFrom(i, j, k) ==
    IF j > k THEN 0
    ELSE (DigitOf(i, j, k) % 2) * 2 ^ (k - j) + ColumnFrom(i, j + 1, k)

\* sum over j of (d_j div 2) * 2^(k-j), from digit j on
RECURSIVE RowFrom(_, _, _)
RowFrom(i, j, k) ==
    IF j > k THEN 0
    ELSE (DigitOf(i, j, k) \div 2) * 2 ^ (k - j) + RowFrom(i, j + 1, k)

\* C12: for a face of 4^k tiles, 1 <= k <= 4, in ascending subdivision order,
\* _stitch_face pastes the tile at list position i, of base-4 digits d_1..d_k, at
\* x = 256 * sum_j (d_j mod 2) * 2^(k-j), y = 256 * sum_j (d_j div 2) * 2^(k-j);
\* every 256x256 cell of the 2^k x 2^k canvas is covered by exactly one tile and
\* no two tiles overlap.
C12_TilesAtQuadtreeOffsets ==
    (call = "_stitch_face" /\ zoom \in 1..MAX_ZOOM) =>
        LET face == faces[face_idx]
            k == zoom
            cells == output.image.cells IN
        /\ Len(face) = 4 ^ k
        /\ \A i \in 0..(Len(face) - 1) :
            [x |-> 256 * ColumnFrom(i, 1, k), y |-> 256 * RowFrom(i, 1, k),
             src |-> face[i + 1].image] \in cells
        /\ Cardinality(cells) = Len(face)
        /\ \A c \in cells :
            /\ c.x % 256 = 0 /\ c.x \div 256 \in 0..(2 ^ k - 1)
            /\ c.y % 256 = 0 /\ c.y \div 256 \in 0..(2 ^ k - 1)
        /\ \A cx, cy \in 0..(2 ^ k - 1) :
            Cardinality({c \in cells : c.x = 256 * cx /\ c.y = 256 * cy}) = 1

C12_Witness ==
    /\ call = "_stitch_face"
    /\ zoom = 3
    /\ Len(faces[face_idx]) = 64
    /\ [x |-> 1024 + 0 + 256, y |-> 0 + 512 + 256, src |-> faces[face_idx][27 + 1].image]
           \in output.image.cells

\* ------------------------------------------------- claims on the recursion

RECURSIVE Concat(_)
Concat(lists) == IF lists = <<>> THEN <<>> ELSE Head(lists) \o Concat(Tail(lists))

\* the split of an invocation on N > 4 tiles: four contiguous sublists of length
\* N/4 which together are the list, every tile once
SplitsInFourQuarters(face) ==
    LET split == _split_list(face, Len(face) \div 4) IN
    /\ Len(split) = 4
    /\ \A q \in 1..4 :
        /\ Len(split[q]) * 4 = Len(face)
        /\ split[q] = SubSeq(face, (q - 1) * Len(split[q]) + 1, q * Len(split[q]))
    /\ Concat(split) = face
    /\ Cardinality({face[i].url : i \in 1..Len(face)}) = Len(face)

\* every invocation in progress was given exactly one quarter of its caller's
\* list, the quarter its caller is at
QuarterOfCaller ==
    \A l \in 2..Len(stack) :
        LET caller == stack[l - 1]
            n == Len(caller.face) \div 4 IN
        /\ Len(caller.face) > 4
        /\ Len(stack[l].face) * 4 = Len(caller.face)
        /\ stack[l].face = SubSeq(caller.face, caller.done * n + 1, (caller.done + 1) * n)

RecursionIsBounded ==
    (zoom \in 1..MAX_ZOOM /\ pc = "stitching") =>
        /\ Len(stack) \in 1..zoom
        /\ Len(stack[1].face) = 4 ^ zoom
        /\ \A l \in 1..Len(stack) :
            /\ Len(stack[l].face) = 4 ^ (zoom - l + 1)
            /\ Len(stack[l].face) > 4 => SplitsInFourQuarters(stack[l].face)
        /\ QuarterOfCaller

\* C13: _stitch_face terminates on every face of 4^k tiles, k >= 1: each
\* recursive call receives exactly one quarter of its caller's tiles (four
\* contiguous sublists of length N/4, together every tile exactly once), the
\* nesting never exceeds k, and the outermost call returns, with the image the
\* recursive definition gives.
C13_QuartersUntilBaseCase ==
    /\ [](RecursionIsBounded)
    /\ [](pc = "returned" => (stack = <<>> /\ output = _stitch_face(faces[face_idx])))
    /\ (zoom \in 1..MAX_ZOOM /\ pc = "ready") ~> (pc = "returned")

C13_Witness ==
    /\ zoom = MAX_ZOOM
    /\ pc = "stitching"
    /\ Len(stack) = 4
    /\ Len(stack[1].face) = 256
    /\ Len(stack[4].face) = 4
    /\ stack[1].done = 3 /\ stack[2].done = 3 /\ stack[3].done = 3

\* ------------------------------------------- claims on the order of a request

HasBytes(tile) == tile.image # NoImage
AllAttached(face) == \A i \in 1..Len(face) : HasBytes(face[i])
NoneAttached(face) == \A i \in 1..Len(face) : ~HasBytes(face[i])

\* the batches so far are those of faces 0, 1, ... in this order, one outstanding
\* at most; a face's batch was dispatched only when every face before it had all
\* its bytes; the faces from the current one on have none while it downloads;
\* the request returns only with every tile carrying bytes; a failed batch is the
\* last one dispatched
BatchesInFaceOrder ==
    (call \in Conventions) =>
        /\ Len(batches) \in 1..NUM_FACES
        /\ Len(batches) = face_idx + 1
        /\ \A b \in 1..Len(batches) : batches[b] = UrlsOf(faces[b - 1])
        /\ Len(returned) \in {Len(batches) - 1, Len(batches)}
        /\ pc = "downloading" => Len(returned) = Len(batches) - 1
        /\ \A f \in 0..(Len(batches) - 2) : AllAttached(faces[f]) /\ ~BatchFailed(f + 1)
        /\ \A f \in Len(batches)..(NUM_FACES - 1) : NoneAttached(faces[f])
        /\ pc = "downloading" => NoneAttached(faces[face_idx])
        /\ pc = "returned" =>
            /\ Len(batches) = NUM_FACES
            /\ \A f \in 0..(NUM_FACES - 1) : AllAttached(faces[f])
            /\ Cardinality({<<f, i>> \in (0..(NUM_FACES - 1)) \X (1..Len(faces[0])) :
                               HasBytes(faces[f][i])}) = NUM_FACES * 4 ^ vzoom
        /\ \A b \in 1..Len(returned) : BatchFailed(b) => (b = Len(batches) /\ pc = "raised")

\* bytes once attached stay as they are; a batch is dispatched one at a time, and
\* only when the face before it has all its bytes; nothing is dispatched after a
\* failed batch; the request returns only from a state where the last batch was
\* the one outstanding
AttachedOnceThenDispatched ==
    (call \in Conventions) =>
        /\ \A f \in 0..(NUM_FACES - 1) : \A i \in 1..Len(faces[f]) :
            HasBytes(faces[f][i]) => faces'[f][i] = faces[f][i]
        /\ batches' # batches =>
            /\ Len(batches') = Len(batches) + 1
            /\ SubSeq(batches', 1, Len(batches)) = batches
            /\ AllAttached(faces'[face_idx])
            /\ face_idx' = face_idx + 1
        /\ (\E b \in 1..Len(returned) : BatchFailed(b)) => batches' = batches
        /\ (pc # "returned" /\ pc' = "returned") =>
            \A f \in 0..(NUM_FACES - 1) : AllAttached(faces'[f])

\* C14: in one get_panorama / get_panorama_async request the six face batches are
\* dispatched one at a time in face order 0..5, the batch of face f+1 only after
\* every result of face f has been attached, each tile gets its bytes once and
\* keeps them, stitching starts only when all 6 * 4^z tiles carry bytes, and after
\* a failed batch no batch of a later face is dispatched.
C14_FaceByFaceThenStitch ==
    /\ []BatchesInFaceOrder
    /\ [][AttachedOnceThenDispatched]_vars

C14_Witness ==
    /\ call = "get_panorama"
    /\ pc = "returned"
    /\ vzoom = 1
    /\ Len(batches) = NUM_FACES
    /\ Len(returned) = NUM_FACES
    /\ reordered
    /\ \A f \in 0..(NUM_FACES - 1) : AllAttached(faces[f])

====
